---- MODULE Spec2Model ----
(***************************************************************************)
(* A model of expander.py: locating contraction markers in a tagged        *)
(* sentence, grouping them into spans, resolving each span against the     *)
(* expansion dictionary and, when several expansions are possible,         *)
(* disambiguating with the frequency table.                                *)
(*                                                                         *)
(* Python values are modelled as follows.                                  *)
(*   - a str is a sequence of one-character strings: "he" is <<"h","e">>;  *)
(*   - an element of a sentence list is either a (word, pos) tuple or a    *)
(*     plain str; both are the record [pair, w, t], see Tok and Str;       *)
(*   - list indices are the Python indices (0-based, negative indices      *)
(*     count from the end), see At and SetAt;                              *)
(*   - a raised exception is the name of its class in the field/variable   *)
(*     err ("none" when nothing was raised).                               *)
(***************************************************************************)
EXTENDS Integers, Sequences, FiniteSets, TLC

----------------------------------------------------------------------------
(* str methods *)

UpperChars == <<"A","B","C","D","E","F","G","H","I","J","K","L","M",
                "N","O","P","Q","R","S","T","U","V","W","X","Y","Z">>
LowerChars == <<"a","b","c","d","e","f","g","h","i","j","k","l","m",
                "n","o","p","q","r","s","t","u","v","w","x","y","z">>

IsUpperCh(c) == \E i \in DOMAIN UpperChars : UpperChars[i] = c
IsLowerCh(c) == \E i \in DOMAIN LowerChars : LowerChars[i] = c
IsCasedCh(c) == IsUpperCh(c) \/ IsLowerCh(c)

LowerCh(c) ==
    IF IsUpperCh(c)
    THEN LowerChars[CHOOSE i \in DOMAIN UpperChars : UpperChars[i] = c]
    ELSE c

UpperCh(c) ==
    IF IsLowerCh(c)
    THEN UpperChars[CHOOSE i \in DOMAIN LowerChars : LowerChars[i] = c]
    ELSE c

\* s.lower()
lower(s) == [i \in 1..Len(s) |-> LowerCh(s[i])]

\* s.capitalize(): first character upper-cased, every other one lower-cased
capitalize(s) ==
    [i \in 1..Len(s) |-> IF i = 1 THEN UpperCh(s[i]) ELSE LowerCh(s[i])]

\* s.title(): a cased character is upper-cased when it follows an uncased
\* character (or starts the string) and lower-cased otherwise
title(s) ==
    [i \in 1..Len(s) |->
        IF i = 1 \/ ~IsCasedCh(s[i-1]) THEN UpperCh(s[i]) ELSE LowerCh(s[i])]

\* c.isupper() for a one-character (or longer) str: there is a cased
\* character and no cased character is lower case
isupper(s) ==
    /\ \E i \in 1..Len(s) : IsCasedCh(s[i])
    /\ \A i \in 1..Len(s) : ~IsLowerCh(s[i])

RECURSIVE SplitFrom(_, _, _, _)
SplitFrom(s, i, cur, acc) ==
    IF i > Len(s)
    THEN IF cur = <<>> THEN acc ELSE Append(acc, cur)
    ELSE IF s[i] = " "
         THEN SplitFrom(s, i + 1, <<>>,
                        IF cur = <<>> THEN acc ELSE Append(acc, cur))
         ELSE SplitFrom(s, i + 1, Append(cur, s[i]), acc)

\* s.split(): the maximal runs of non-blank characters
split(s) == SplitFrom(s, 1, <<>>, <<>>)

\* nltk.word_tokenize(a) on an expansion phrase made of letters and blanks:
\* the words of the phrase
word_tokenize(a) == split(a)

RECURSIVE Concat(_, _)
Concat(strs, i) ==
    IF i > Len(strs) THEN <<>> ELSE strs[i] \o Concat(strs, i + 1)

\* ''.join(strs)
join(strs) == Concat(strs, 1)

RECURSIVE JoinBlank(_, _)
JoinBlank(strs, i) ==
    IF i > Len(strs) THEN <<>>
    ELSE IF i = 1 THEN strs[i] \o JoinBlank(strs, i + 1)
         ELSE <<" ">> \o strs[i] \o JoinBlank(strs, i + 1)

\* ' '.join(strs)
join_blank(strs) == JoinBlank(strs, 1)

RECURSIVE ReplaceFrom(_, _)
ReplaceFrom(s, i) ==
    IF i > Len(s) THEN <<>>
    ELSE IF i < Len(s) /\ s[i] = " " /\ s[i+1] = "'"
         THEN <<"'">> \o ReplaceFrom(s, i + 2)
         ELSE <<s[i]>> \o ReplaceFrom(s, i + 1)

\* s.replace(" '", "'")
replace_blank_apostrophe(s) == ReplaceFrom(s, 1)

----------------------------------------------------------------------------
(* tuples, list elements and list indexing *)

\* a (word, pos) tuple
Tok(w, t) == [pair |-> TRUE, w |-> w, t |-> t]
\* a plain str used as a list element
Str(s) == [pair |-> FALSE, w |-> s, t |-> <<>>]

\* x[0] and x[1] for a list element x: the components of a tuple, the
\* characters of a str (IndexError when the str is too short)
Has0(x) == x.pair \/ Len(x.w) >= 1
Get0(x) == IF x.pair THEN x.w ELSE <<x.w[1]>>
Has1(x) == x.pair \/ Len(x.w) >= 2
Get1(x) == IF x.pair THEN x.t ELSE <<x.w[2]>>

\* the position in a list of length n that the Python index i denotes
Pos(n, i) == IF i < 0 THEN i + n + 1 ELSE i + 1
InRange(L, i) == Pos(Len(L), i) \in 1..Len(L)
At(L, i) == L[Pos(Len(L), i)]
SetAt(L, i, v) == [L EXCEPT ![Pos(Len(L), i)] = v]

\* L[a:b] with the slice bounds clamped as Python clamps them
SliceLo(n, a) == IF a < 0 THEN (IF a + n < 0 THEN 0 ELSE a + n)
                 ELSE (IF a > n THEN n ELSE a)
Slice(L, a, b) ==
    LET lo == SliceLo(Len(L), a)
        hi == SliceLo(Len(L), b)
    IN  IF hi <= lo THEN <<>> ELSE SubSeq(L, lo + 1, hi)

----------------------------------------------------------------------------
(* _extract_contractions, _consecutive_sub_list, _remove_pos_tags *)

APOSTROPHE == "'"
POS == <<"P","O","S">>
NT == <<"n","'","t">>

\* the test of lines 34-42 on one (word, pos) tuple, with the possessive
\* test left out
IsMarkerNoPos(word_pos) ==
    IF Get0(word_pos)[1] = APOSTROPHE
    THEN TRUE
    ELSE Get0(word_pos) = NT

\* the test of lines 34-42 on one (word, pos) tuple
IsMarker(word_pos) ==
    IF Get0(word_pos)[1] = APOSTROPHE
    THEN Get1(word_pos) # POS
    ELSE Get0(word_pos) = NT

RECURSIVE ExtractFrom(_, _, _)
ExtractFrom(sentence, i, idx) ==
    IF i >= Len(sentence) THEN idx
    ELSE ExtractFrom(sentence, i + 1,
                     IF IsMarker(At(sentence, i)) THEN Append(idx, i) ELSE idx)

\* _extract_contractions(sent): the list of marker indices, or None
\* (none = TRUE) when the list is empty
_extract_contractions(sentence) ==
    LET idx == ExtractFrom(sentence, 0, <<>>)
    IN  IF idx # <<>> THEN [none |-> FALSE, lst |-> idx]
        ELSE [none |-> TRUE, lst |-> <<>>]

\* a grouping key that ignores the position in the list
GroupKeyValueOnly(int_list, i) == int_list[i]

\* the groupby key of line 67 for the i-th element (1-based) of int_list:
\* x[1] - x[0] over enumerate(int_list)
GroupKey(int_list, i) == int_list[i] - (i - 1)

RECURSIVE GroupBy(_, _, _)
GroupBy(int_list, i, groups) ==
    IF i > Len(int_list) THEN groups
    ELSE IF i > 1 /\ GroupKey(int_list, i) = GroupKey(int_list, i - 1)
         THEN GroupBy(int_list, i + 1,
                      [groups EXCEPT ![Len(groups)] = Append(@, int_list[i])])
         ELSE GroupBy(int_list, i + 1, Append(groups, <<int_list[i]>>))

\* _consecutive_sub_list(int_list): the groups itertools.groupby yields,
\* each a run of adjacent elements with the same key
_consecutive_sub_list(int_list) == GroupBy(int_list, 1, <<>>)

\* line 163: the span of a run
Consecutive(run) == <<run[1] - 1>> \o run

\* _remove_pos_tags(sent): word_pos[0] of every element
RemovePosOk(L) == \A i \in 1..Len(L) : Has0(L[i])
_remove_pos_tags(L) == [i \in 1..Len(L) |-> Str(Get0(L[i]))]

\* the plain words of a list of str elements
Words(L) == [i \in 1..Len(L) |-> L[i].w]
IsPlain(L) == \A i \in 1..Len(L) : ~L[i].pair

----------------------------------------------------------------------------
(* the two dictionaries: contractions.yaml and disambiguations.yaml *)

PRP == <<"P","R","P">>
MD == <<"M","D">>
VB == <<"V","B">>
XX == <<"X","X">>

w_he == <<"h","e">>
w_He == <<"H","e">>
w_HE == <<"H","E">>
w_d == <<"'","d">>
w_D == <<"'","D">>
w_ll == <<"'","l","l">>
w_s == <<"'","s">>
w_go == <<"g","o">>
w_tis == <<"'","t","i","s">>

p_he_would == <<"h","e"," ","w","o","u","l","d">>
p_he_had == <<"h","e"," ","h","a","d">>
p_he_did == <<"h","e"," ","d","i","d">>
p_he_will == <<"h","e"," ","w","i","l","l">>
p_he_would_not == <<"h","e"," ","w","o","u","l","d"," ","n","o","t">>
p_it_is == <<"i","t"," ","i","s">>

\* the expansion dictionary read at lines 249-251: contracted string ->
\* list of possible replacements
contractions ==
    << [key |-> w_he \o w_d,       cands |-> <<p_he_would, p_he_had, p_he_did>>],
       [key |-> w_he \o w_ll,      cands |-> <<p_he_will>>],
       [key |-> w_he \o w_d \o NT, cands |-> <<p_he_would_not>>],
       [key |-> w_tis,             cands |-> <<p_it_is>>] >>

\* key in d, d[key] for a dictionary kept as the list of its items
InDict(d, key) == \E i \in 1..Len(d) : d[i].key = key
Lookup(d, key) == d[CHOOSE i \in 1..Len(d) : d[i].key = key].cands

\* the disambiguation dictionary read at lines 253-254 with the given
\* counts: (span tuples..., trailing tags...) -> {replacement: count}
Table(c1, c2, c3) ==
    << [key |-> <<Tok(w_he, PRP), Tok(w_d, MD), Str(VB)>>,
        cands |-> << [phrase |-> p_he_would, count |-> c1],
                     [phrase |-> p_he_had,   count |-> c2],
                     [phrase |-> p_he_did,   count |-> c3] >>],
       [key |-> <<Tok(w_he, PRP), Tok(w_d, MD), Str(PRP)>>,
        cands |-> << [phrase |-> p_he_had, count |-> c2] >>] >>

RECURSIVE CountStr(_, _)
CountStr(key, i) ==
    IF i > Len(key) THEN 0
    ELSE (IF key[i].pair THEN 0 ELSE 1) + CountStr(key, i + 1)

\* lines 259-263: the number of str elements of the first key
AddTags(d) == CountStr(d[1].key, 1)

----------------------------------------------------------------------------
(* _extract_replacements: one iteration of the loop of lines 160-188 *)

\* bound tells whether the generator's local variable expanded has been
\* assigned by an earlier iteration (it then holds lists of tokens).
Resolve(run, sentence, bound) ==
    LET consecutive == Consecutive(run)
        part == Slice(sentence, consecutive[1],
                      consecutive[Len(consecutive)] + 1)
        contr == [i \in 1..Len(part) |-> Get0(part[i])]
        key == join(contr)
        wrapped == consecutive[1] < 0 /\ part # <<>>
    IN  IF InDict(contractions, key)
        THEN [kind |-> "yield", branch |-> "exact", key |-> key,
              err |-> "none", wrapped |-> wrapped,
              rplc |-> [idx |-> consecutive, contr |-> contr,
                        expanded |->
                          [i \in 1..Len(Lookup(contractions, key)) |->
                             word_tokenize(Lookup(contractions, key)[i])]]]
        ELSE IF InDict(contractions, lower(key))
        THEN IF isupper(<<key[1]>>)
             THEN [kind |-> "yield", branch |-> "lower_cap", key |-> key,
                   err |-> "none", wrapped |-> wrapped,
                   rplc |-> [idx |-> consecutive, contr |-> contr,
                             expanded |->
                               [i \in 1..Len(Lookup(contractions, lower(key))) |->
                                  word_tokenize(capitalize(
                                     Lookup(contractions, lower(key))[i]))]]]
             \* expanded is not assigned by this iteration: line 187 reads
             \* an unbound local, or tokenizes the token lists left by the
             \* iteration that last assigned it
             ELSE [kind |-> "raise", branch |-> "lower_asis", key |-> key,
                   err |-> IF bound THEN "TypeError" ELSE "UnboundLocalError",
                   wrapped |-> wrapped,
                   rplc |-> [idx |-> consecutive, contr |-> contr,
                             expanded |-> <<>>]]
        ELSE [kind |-> "skip", branch |-> "unknown", key |-> key,
              err |-> "none", wrapped |-> wrapped,
              rplc |-> [idx |-> consecutive, contr |-> contr,
                        expanded |-> <<>>]]

----------------------------------------------------------------------------
(* _disambiguate *)

NoReplacement == [none |-> TRUE, phrase |-> <<>>]
Replacement(phrase) == [none |-> FALSE, phrase |-> phrase]

MaxVal(cands) ==
    CHOOSE m \in {cands[i].count : i \in 1..Len(cands)} :
        \A i \in 1..Len(cands) : cands[i].count <= m

\* lines 103-124 for the entry cands found under the key.  With argmax
\* false line 111 sets replacement = [] and control then falls through to
\* lines 113-124, which assign replacement again: the flag changes nothing.
SelectReplacement(cands, argmax) ==
    IF Len(cands) = 1
    THEN Replacement(cands[1].phrase)
    ELSE LET max_val == MaxVal(cands)
             at_max == {i \in 1..Len(cands) : cands[i].count = max_val}
         IN  IF Cardinality(at_max) = 1
             THEN Replacement(cands[CHOOSE i \in at_max : TRUE].phrase)
             ELSE NoReplacement

\* lines 96-100: the lookup key, or an IndexError
KeyOk(L, idx, add_tags) ==
    LET last == idx[Len(idx)]
    IN  /\ \A k \in 1..Len(idx) : InRange(L, idx[k])
        /\ \A i \in (last + 1)..(last + add_tags) :
              /\ i < Len(L)
              /\ Has1(At(L, i))
InpTuple(L, idx, add_tags) ==
    LET last == idx[Len(idx)]
    IN  [k \in 1..Len(idx) |-> At(L, idx[k])]
        \o [j \in 1..add_tags |-> Str(Get1(At(L, last + j)))]

\* lines 131-133: sent[index] = replacement.split()[i] for every index of
\* the span
RECURSIVE ReplaceWords(_, _, _, _)
ReplaceWords(L, idx, words, k) ==
    IF k > Len(idx) THEN L
    ELSE ReplaceWords(SetAt(L, idx[k], Str(words[k])), idx, words, k + 1)

\* _disambiguate(sent, rplc_tuple, disambiguations, add_tags, argmax) with
\* rplc_tuple[0] = idx.  The result holds the exception raised (err), the
\* list returned (out), the argument list as the call leaves it (arg: line
\* 92 assigns to sent[0] in place), and the local variable replacement.
_disambiguate(L, idx, d, add_tags, argmax) ==
    LET first == Get0(L[1])
        capitalized == isupper(<<first[1]>>)
        raised(e, a) == [err |-> e, out |-> <<>>, arg |-> a,
                         replacement |-> NoReplacement, found |-> FALSE,
                         capitalized |-> capitalized]
    IN  IF capitalized /\ ~Has1(L[1]) THEN raised("IndexError", L)
        ELSE
        LET L1 == IF capitalized
                  THEN SetAt(L, 0, Tok(lower(first), Get1(L[1])))
                  ELSE L
        IN  IF ~KeyOk(L1, idx, add_tags) THEN raised("IndexError", L1)
            ELSE
            LET inp_tuple == InpTuple(L1, idx, add_tags)
                found == InDict(d, inp_tuple)
                replacement ==
                    IF found
                    THEN SelectReplacement(Lookup(d, inp_tuple), argmax)
                    ELSE NoReplacement
            IN  IF ~RemovePosOk(L1) THEN raised("IndexError", L1)
                ELSE
                LET plain == _remove_pos_tags(L1)
                    words == split(replacement.phrase)
                IN  IF ~replacement.none /\ Len(words) < Len(idx)
                    THEN raised("IndexError", L1)
                    ELSE
                    LET replaced == IF replacement.none THEN plain
                                    ELSE ReplaceWords(plain, idx, words, 1)
                        out == IF capitalized
                               THEN SetAt(replaced, 0,
                                          Str(title(replaced[1].w)))
                               ELSE replaced
                    IN  [err |-> "none", out |-> out, arg |-> L1,
                         replacement |-> replacement, found |-> found,
                         capitalized |-> capitalized]

----------------------------------------------------------------------------
(* inputs *)

\* longest sentence given to expand_contractions
MaxLen == 5
\* longest sentence given to _disambiguate called on its own
MaxDisLen == 4
\* longest sentence given to _extract_contractions called on its own
MaxLocLen == 3
\* largest index in a list given to _consecutive_sub_list called on its own
MaxIdx == 6
\* largest occurrence count in the disambiguation dictionary
MaxOccur == 2

t_he == Tok(w_he, PRP)
t_He == Tok(w_He, PRP)
t_HE == Tok(w_HE, PRP)
t_d == Tok(w_d, MD)
t_D == Tok(w_D, MD)
t_ll == Tok(w_ll, MD)
t_go == Tok(w_go, VB)
t_pos == Tok(w_s, POS)
t_nt == Tok(NT, XX)
t_tis == Tok(w_tis, XX)
t_nt_pos == Tok(NT, POS)

\* the (word, pos) tuples the tagger hands to expand_contractions
Vocab == {t_he, t_He, t_d, t_D, t_ll, t_go, t_pos, t_nt, t_tis}
\* ... to _disambiguate called on its own
DisVocab == {t_he, t_HE, t_d, t_go, t_pos}
\* ... to _extract_contractions called on its own
LocVocab == Vocab \cup {t_HE, t_nt_pos}

Sentences(V, n) == UNION {[1..k -> V] : k \in 1..n}

\* the strictly ascending lists over 0..MaxIdx
RECURSIVE Ascending(_)
Ascending(set) ==
    IF set = {} THEN <<>>
    ELSE LET m == CHOOSE x \in set : \A y \in set : x <= y
         IN  <<m>> \o Ascending(set \ {m})
IndexLists == {Ascending(set) : set \in (SUBSET (0..MaxIdx)) \ {{}}}

\* the tuples _extract_replacements yields for a sentence that have more
\* than one suggested replacement
AmbiguousTuples(sentence) ==
    LET found == _extract_contractions(sentence)
        groups == _consecutive_sub_list(found.lst)
    IN  {Resolve(groups[i], sentence, FALSE).rplc : i \in
           {j \in 1..Len(groups) :
              /\ Resolve(groups[j], sentence, FALSE).kind = "yield"
              /\ Len(Resolve(groups[j], sentence, FALSE).rplc.expanded) > 1}}

----------------------------------------------------------------------------
(* state *)

VARIABLES
    sent0,            \* the tagged sentence as the tagger returned it
    S,                \* the list object word_pos_ner (line 278)
    tmp,              \* the list object tmp (line 282)
    sent,             \* the value of the variable sent
    alias,            \* the list object sent refers to: "S", "tmp", "fresh"
    idx_lst,          \* line 281
    runs,             \* the groups the generator has not processed yet
    spans,            \* the spans built from the groups
    expanded_bound,   \* the generator's local expanded has been assigned
    rplc,             \* the tuple the generator yielded last
    branch,           \* the dictionary branch of the last iteration
    warned,           \* the keys printed by line 183
    wrapped,          \* a token was read or written through index -1
    replacement,      \* the local replacement of the last _disambiguate
    entry,            \* the lookup of the last _disambiguate
    applied,          \* the spans processed so far, in order
    expected,         \* the words with every outcome chosen so far in place
    is_split,
    argmax,
    disambiguations,
    pc,
    err,              \* the exception raised
    output            \* the return value

vars == <<sent0, S, tmp, sent, alias, idx_lst, runs, spans, expanded_bound,
          rplc,
          branch, warned, wrapped, replacement, entry, applied, expected,
          is_split, argmax, disambiguations, pc, err, output>>

NotLocated == [none |-> TRUE, lst |-> <<>>]
NoTuple == [idx |-> <<>>, contr |-> <<>>, expanded |-> <<>>]
NoEntry == [found |-> FALSE, cands |-> <<>>]
NoOutput == [kind |-> "none", items |-> <<>>, text |-> <<>>]

Start(sentence, sp, am, table, found, tuple, at) ==
    /\ sent0 = sentence
    /\ S = sentence
    /\ tmp = <<>>
    /\ sent = sentence
    /\ alias = "S"
    /\ idx_lst = found
    /\ runs = <<>>
    /\ spans = <<>>
    /\ expanded_bound = FALSE
    /\ rplc = tuple
    /\ branch = "none"
    /\ warned = <<>>
    /\ wrapped = FALSE
    /\ replacement = NoReplacement
    /\ entry = NoEntry
    /\ applied = <<>>
    /\ expected = Words(_remove_pos_tags(sentence))
    /\ is_split = sp
    /\ argmax = am
    /\ disambiguations = table
    /\ pc = at
    /\ err = "none"
    /\ output = NoOutput

\* expand_contractions on one sentence; line 299 leaves argmax at its default
Init ==
    \E sentence \in Sentences(Vocab, MaxLen), sp \in BOOLEAN :
        Start(sentence, sp, TRUE, Table(MaxOccur, 1, 0), NotLocated, NoTuple,
              "locate")

----------------------------------------------------------------------------
(* expand_contractions, the body of the loop of lines 267-301 and the
   return of lines 309-315 *)

\* the first character of a word upper-cased, the rest as it is
CapFirst(w) == [i \in 1..Len(w) |-> IF i = 1 THEN UpperCh(w[i]) ELSE w[i]]

RECURSIVE PutWords(_, _, _, _)
PutWords(ws, idx, words, k) ==
    IF k > Len(idx) \/ k > Len(words) THEN ws
    ELSE PutWords([ws EXCEPT ![Pos(Len(ws), idx[k])] = words[k]],
                  idx, words, k + 1)

\* the words once the outcome chosen for the span idx is in place: the
\* chosen words at the span's positions, the sentence-initial capital kept
Chosen(ws, idx, words) ==
    LET put == PutWords(ws, idx, words, 1)
    IN  IF isupper(<<sent0[1].w[1]>>)
        THEN [put EXCEPT ![1] = CapFirst(@)]
        ELSE put

\* lines 281-282
Locate ==
    /\ pc = "locate"
    /\ idx_lst' = _extract_contractions(sent)
    /\ tmp' = _remove_pos_tags(sent)
    /\ runs' = _consecutive_sub_list(idx_lst'.lst)
    /\ pc' = IF idx_lst'.none THEN "none_found" ELSE "next"
    /\ UNCHANGED <<sent0, S, sent, alias, spans, expanded_bound, rplc, branch,
                   warned, wrapped, replacement, entry, applied, expected,
                   is_split, argmax, disambiguations, err, output>>

\* lines 283-285
NoContractions ==
    /\ pc = "none_found"
    /\ sent' = tmp
    /\ alias' = "tmp"
    /\ pc' = "return"
    /\ UNCHANGED <<sent0, S, tmp, idx_lst, runs, spans, expanded_bound, rplc,
                   branch, warned, wrapped, replacement, entry, applied,
                   expected, is_split, argmax, disambiguations, err, output>>

\* line 288 when the generator is exhausted: the for loop ends
NextExhausted ==
    /\ pc = "next"
    /\ runs = <<>>
    /\ pc' = "return"
    /\ UNCHANGED <<sent0, S, tmp, sent, alias, idx_lst, runs, spans,
                   expanded_bound, rplc, branch, warned, wrapped, replacement,
                   entry, applied, expected, is_split, argmax,
                   disambiguations, err, output>>

\* lines 160-188, an iteration that yields
NextYield ==
    /\ pc = "next"
    /\ runs # <<>>
    /\ LET r == Resolve(Head(runs), S, expanded_bound)
       IN  /\ r.kind = "yield"
           /\ rplc' = r.rplc
           /\ branch' = r.branch
           /\ wrapped' = (wrapped \/ r.wrapped)
    /\ spans' = Append(spans, Consecutive(Head(runs)))
    /\ runs' = Tail(runs)
    /\ expanded_bound' = TRUE
    /\ pc' = "apply"
    /\ UNCHANGED <<sent0, S, tmp, sent, alias, idx_lst, warned, replacement,
                   entry, applied, expected, is_split, argmax,
                   disambiguations, err, output>>

\* lines 160-184, an iteration that prints the warning and continues
NextUnknown ==
    /\ pc = "next"
    /\ runs # <<>>
    /\ LET r == Resolve(Head(runs), S, expanded_bound)
       IN  /\ r.kind = "skip"
           /\ branch' = r.branch
           /\ warned' = Append(warned, r.key)
           /\ wrapped' = (wrapped \/ r.wrapped)
    /\ spans' = Append(spans, Consecutive(Head(runs)))
    /\ runs' = Tail(runs)
    /\ UNCHANGED <<sent0, S, tmp, sent, alias, idx_lst, expanded_bound, rplc,
                   applied, expected, replacement, entry, is_split, argmax,
                   disambiguations, pc, err, output>>

\* lines 160-187, an iteration in which line 187 raises
NextRaise ==
    /\ pc = "next"
    /\ runs # <<>>
    /\ LET r == Resolve(Head(runs), S, expanded_bound)
       IN  /\ r.kind = "raise"
           /\ branch' = r.branch
           /\ err' = r.err
           /\ wrapped' = (wrapped \/ r.wrapped)
    /\ spans' = Append(spans, Consecutive(Head(runs)))
    /\ runs' = Tail(runs)
    /\ pc' = "raised"
    /\ UNCHANGED <<sent0, S, tmp, sent, alias, idx_lst, expanded_bound, rplc,
                   warned, replacement, entry, applied, expected, is_split,
                   argmax, disambiguations, output>>

\* lines 293-296
ApplyUnambiguous ==
    /\ pc = "apply"
    /\ Len(rplc.expanded) = 1
    /\ LET words == rplc.expanded[1]
           fits == Len(words) >= Len(rplc.idx)
       IN  \* tmp[index] = rplc_tuple[2][0][i] raises IndexError past the
           \* last word of the expansion
           /\ tmp' = IF fits
                     THEN ReplaceWords(tmp, rplc.idx, words, 1)
                     ELSE ReplaceWords(tmp, SubSeq(rplc.idx, 1, Len(words)),
                                       words, 1)
           /\ sent' = IF fits THEN tmp' ELSE IF alias = "tmp" THEN tmp' ELSE sent
           /\ alias' = IF fits THEN "tmp" ELSE alias
           /\ err' = IF fits THEN "none" ELSE "IndexError"
           /\ pc' = IF fits THEN "next" ELSE "raised"
           /\ expected' = IF fits THEN Chosen(expected, rplc.idx, words)
                          ELSE expected
           /\ applied' = IF fits
                         THEN Append(applied, [idx |-> rplc.idx,
                                               how |-> "unambiguous"])
                         ELSE applied
    /\ wrapped' = (wrapped \/ rplc.idx[1] < 0)
    /\ UNCHANGED <<sent0, S, idx_lst, runs, spans, expanded_bound, rplc,
                   branch, warned, replacement, entry, is_split, argmax,
                   disambiguations, output>>

\* the effect of a call of _disambiguate on the caller's variables
Called(r, returned, failed) ==
    /\ S' = IF alias = "S" THEN r.arg ELSE S
    /\ tmp' = IF alias = "tmp" THEN r.arg ELSE tmp
    /\ replacement' = r.replacement
    /\ entry' = [found |-> r.found,
                 cands |-> IF r.found
                           THEN Lookup(disambiguations,
                                       InpTuple(r.arg, rplc.idx,
                                                AddTags(disambiguations)))
                           ELSE <<>>]
    /\ err' = r.err
    /\ sent' = IF r.err = "none" THEN r.out ELSE r.arg
    /\ alias' = IF r.err = "none" THEN "fresh" ELSE alias
    /\ pc' = IF r.err = "none" THEN returned ELSE failed
    /\ wrapped' = (wrapped \/ rplc.idx[1] < 0)
    /\ expected' = IF r.err = "none" /\ ~r.replacement.none
                   THEN Chosen(expected, rplc.idx, split(r.replacement.phrase))
                   ELSE expected
    /\ applied' = IF r.err = "none"
                  THEN Append(applied, [idx |-> rplc.idx, how |-> "ambiguous"])
                  ELSE applied

\* lines 298-300
Disambiguate ==
    /\ pc = "apply"
    /\ Len(rplc.expanded) # 1
    /\ Called(_disambiguate(sent, rplc.idx, disambiguations,
                            AddTags(disambiguations), argmax),
              "next", "raised")
    /\ UNCHANGED <<sent0, idx_lst, runs, spans, expanded_bound, rplc, branch,
                   warned, is_split, argmax, disambiguations, output>>

\* lines 301 and 315 with is_split true
ReturnList ==
    /\ pc = "return"
    /\ is_split
    /\ output' = [kind |-> "list", items |-> sent, text |-> <<>>]
    /\ pc' = "done"
    /\ UNCHANGED <<sent0, S, tmp, sent, alias, idx_lst, runs, spans,
                   expanded_bound, rplc, branch, warned, wrapped, replacement,
                   entry, applied, expected, is_split, argmax,
                   disambiguations, err>>

\* lines 301 and 309-315 with is_split false: ' '.join raises TypeError on
\* an element that is not a str
ReturnJoined ==
    /\ pc = "return"
    /\ ~is_split
    /\ IF IsPlain(sent)
       THEN /\ output' = [kind |-> "str", items |-> <<>>,
                          text |-> replace_blank_apostrophe(
                                      join_blank(Words(sent)))]
            /\ pc' = "done"
            /\ err' = "none"
       ELSE /\ output' = output
            /\ pc' = "raised"
            /\ err' = "TypeError"
    /\ UNCHANGED <<sent0, S, tmp, sent, alias, idx_lst, runs, spans,
                   expanded_bound, rplc, branch, warned, wrapped, replacement,
                   entry, applied, expected, is_split, argmax,
                   disambiguations>>

Next ==
    \/ Locate
    \/ NoContractions
    \/ NextExhausted
    \/ NextYield
    \/ NextUnknown
    \/ NextRaise
    \/ ApplyUnambiguous
    \/ Disambiguate
    \/ ReturnList
    \/ ReturnJoined

Spec == Init /\ [][Next]_vars

----------------------------------------------------------------------------
(* the functions called on their own *)

\* _extract_contractions on any tagged sentence
InitLocate ==
    \E sentence \in Sentences(LocVocab, MaxLocLen) :
        Start(sentence, TRUE, TRUE, Table(MaxOccur, 1, 0), NotLocated,
              NoTuple, "locate")

SpecLocate == InitLocate /\ [][Locate]_vars

\* _consecutive_sub_list and line 163 on any list _extract_contractions
\* can return
InitGroup ==
    \E lst \in IndexLists, sentence \in Sentences({t_go}, 1) :
        Start(sentence, TRUE, TRUE, Table(MaxOccur, 1, 0),
              [none |-> FALSE, lst |-> lst], NoTuple, "group")

\* lines 160-163 for every group
GroupSpans ==
    /\ pc = "group"
    /\ runs' = _consecutive_sub_list(idx_lst.lst)
    /\ spans' = [i \in 1..Len(runs') |-> Consecutive(runs'[i])]
    /\ pc' = "grouped"
    /\ UNCHANGED <<sent0, S, tmp, sent, alias, idx_lst, expanded_bound, rplc,
                   branch, warned, wrapped, replacement, entry, applied,
                   expected, is_split, argmax, disambiguations, err, output>>

SpecGroup == InitGroup /\ [][GroupSpans]_vars

\* _disambiguate on a tagged sentence and one of its ambiguous spans, with
\* any counts in the dictionary and either value of argmax
InitDisamb ==
    \E sentence \in Sentences(DisVocab, MaxDisLen), am \in BOOLEAN,
       c1 \in 0..MaxOccur, c2 \in 0..MaxOccur, c3 \in 0..MaxOccur :
        \E tuple \in AmbiguousTuples(sentence) :
            Start(sentence, TRUE, am, Table(c1, c2, c3), NotLocated, tuple,
                  "call")

CallDisambiguate ==
    /\ pc = "call"
    /\ Called(_disambiguate(sent, rplc.idx, disambiguations,
                            AddTags(disambiguations), argmax),
              "returned", "raised")
    /\ UNCHANGED <<sent0, idx_lst, runs, spans, expanded_bound, rplc, branch,
                   warned, is_split, argmax, disambiguations, output>>

SpecDisamb == InitDisamb /\ [][CallDisambiguate]_vars

----------------------------------------------------------------------------
(* properties *)

\* the words of the sentence as the tagger returned them
OrigWords == [i \in 1..Len(sent0) |-> sent0[i].w]

\* the list L holds the original word at every position of the span idx
SpanUnchanged(L, idx) ==
    \A k \in 1..Len(idx) :
        /\ ~At(L, idx[k]).pair
        /\ At(L, idx[k]).w = At(OrigWords, idx[k])

\* position p (0-based) lies in the span idx
InSpan(idx, p) == \E k \in 1..Len(idx) : idx[k] = p

StrictMax(cands, i) ==
    \A j \in 1..Len(cands) : j # i => cands[j].count < cands[i].count
TiedAtMax(cands) ==
    \E i, j \in 1..Len(cands) :
        /\ i # j
        /\ cands[i].count = cands[j].count
        /\ \A k \in 1..Len(cands) : cands[k].count <= cands[i].count

\* every span of the sentence has been looked up and none was known
AllUnknown ==
    /\ ~idx_lst.none
    /\ runs = <<>>
    /\ spans # <<>>
    /\ Len(warned) = Len(spans)

\* C1: when every contraction span of a sentence is absent from the
\* expansion dictionary, expand_contractions emits the diagnostic, does not
\* raise, and returns the original words as a plain word sequence (joined
\* into one string when is_split is false).
C1_UnknownLeavesSentence ==
    (AllUnknown /\ pc \in {"done", "raised"}) =>
        /\ pc = "done"
        /\ err = "none"
        /\ warned # <<>>
        /\ is_split =>
              /\ output.kind = "list"
              /\ IsPlain(output.items)
              /\ Words(output.items) = OrigWords
        /\ ~is_split =>
              /\ output.kind = "str"
              /\ output.text = replace_blank_apostrophe(join_blank(OrigWords))

\* C2: for a sentence with two or more contraction spans, each unambiguous
\* or ambiguous, the result is a plain word sequence holding the outcome
\* chosen for every span at that span's positions and the original words
\* everywhere else.
C2_EverySpanOutcomeKept ==
    (pc = "done" /\ Len(spans) >= 2 /\ Len(applied) = Len(spans)) =>
        /\ is_split =>
              /\ IsPlain(output.items)
              /\ Words(output.items) = expected
        /\ ~is_split =>
              output.text = replace_blank_apostrophe(join_blank(expected))

\* C3: with argmax enabled and an entry found under the span's key,
\* _disambiguate selects the only candidate of a one-candidate entry, the
\* candidate with the strictly highest count when there is one, and nothing
\* (the span's words stay as they were) when candidates tie for the maximum.
C3_SelectionByCount ==
    (pc = "returned" /\ argmax /\ entry.found) =>
        /\ Len(entry.cands) = 1 =>
              replacement = Replacement(entry.cands[1].phrase)
        /\ \A i \in 1..Len(entry.cands) :
              (Len(entry.cands) > 1 /\ StrictMax(entry.cands, i)) =>
                  replacement = Replacement(entry.cands[i].phrase)
        /\ (Len(entry.cands) > 1 /\ TiedAtMax(entry.cands)) =>
              /\ replacement = NoReplacement
              /\ SpanUnchanged(sent, rplc.idx)

\* the list L holds, up to letter case, the original word at every position
\* of the span idx
SpanUnchangedUpToCase(L, idx) ==
    \A k \in 1..Len(idx) :
        /\ ~At(L, idx[k]).pair
        /\ lower(At(L, idx[k]).w) = lower(At(OrigWords, idx[k]))

\* C4: with argmax disabled, a span whose entry has more than one candidate
\* is left unchanged whatever the counts: the returned words at the span's
\* positions are the input words (compared here up to letter case, so that
\* the capitalization of the first word is not what decides it).
C4_ArgmaxDisabledLeavesSpan ==
    (pc = "returned" /\ ~argmax /\ entry.found /\ Len(entry.cands) > 1) =>
        SpanUnchangedUpToCase(sent, rplc.idx)

\* C5: _disambiguate never raises, wherever the ambiguous span lies; when
\* the key is absent or the maximum count is tied the span's words are
\* returned unchanged (compared up to letter case, as for C4).
C5_NeverRaises ==
    (pc \in {"returned", "raised"}) =>
        /\ pc = "returned"
        /\ err = "none"
        /\ (~entry.found \/ TiedAtMax(entry.cands)) =>
              SpanUnchangedUpToCase(sent, rplc.idx)

\* C6: when the first run of marker indices starts at index 0, no token is
\* read or written through index -1 and no replacement tuple is produced
\* for that span.
C6_NoWrapAround ==
    (~idx_lst.none /\ idx_lst.lst[1] = 0) =>
        /\ ~wrapped
        /\ rplc.idx # <<>> => rplc.idx[1] >= 0
        /\ Len(spans) = 1 => (tmp = _remove_pos_tags(sent0)
                              /\ (warned # <<>> \/ pc = "raised"))

\* C7: a span whose key has no exact match, whose lower-cased key is in the
\* expansion dictionary and whose first character is not upper case is
\* yielded with the candidates stored under the lower-cased key, tokenized.
C7_LowercaseKeyAsIs ==
    (branch = "lower_asis") =>
        /\ err = "none"
        /\ pc = "apply"
        /\ rplc.idx = spans[Len(spans)]
        /\ LET cands == Lookup(contractions, lower(join(rplc.contr)))
           IN  rplc.expanded = [i \in 1..Len(cands) |-> split(cands[i])]

\* token i (0-based) of the sentence is a contraction marker
Qualifies(i) ==
    LET w == sent0[i + 1].w
        t == sent0[i + 1].t
    IN  \/ w[1] = "'" /\ t # <<"P","O","S">>
        \/ w = <<"n","'","t">>

\* C8: _extract_contractions returns, in ascending order, exactly the
\* indices of the tokens that begin with an apostrophe and are not tagged
\* POS or that equal "n't"; it returns None exactly when there is none.
C8_LocatorIndices ==
    (pc \in {"next", "none_found"}) =>
        LET Q == {i \in 0..(Len(sent0) - 1) : Qualifies(i)}
            lst == idx_lst.lst
        IN  /\ idx_lst.none <=> (Q = {})
            /\ idx_lst.none => lst = <<>>
            /\ \A k \in 1..(Len(lst) - 1) : lst[k] < lst[k + 1]
            /\ {lst[k] : k \in 1..Len(lst)} = Q
            /\ \A i \in 0..(Len(sent0) - 1) :
                  (sent0[i + 1].w[1] = "'" /\ sent0[i + 1].t = <<"P","O","S">>)
                      => \A k \in 1..Len(lst) : lst[k] # i

\* a sentence with a possessive, an apostrophe-led marker and "n't"
C8_Witness ==
    /\ pc = "next"
    /\ Len(idx_lst.lst) >= 2
    /\ \E i \in 1..Len(sent0) :
          sent0[i].w[1] = "'" /\ sent0[i].t = <<"P","O","S">>
    /\ \E i \in 1..Len(sent0) : sent0[i].w = <<"n","'","t">>

RECURSIVE MarkersOf(_, _)
MarkersOf(sp, g) ==
    IF g > Len(sp) THEN <<>> ELSE Tail(sp[g]) \o MarkersOf(sp, g + 1)

\* C9: for a strictly ascending list whose first element is at least 1, the
\* spans are the maximal runs of consecutive indices, each with the index
\* before its first element in front: indices one apart share a span,
\* indices further apart do not, the runs in order give back the list, and
\* every span rises by 1 and has at least two elements.
C9_SpansAreMaximalRuns ==
    (pc = "grouped" /\ idx_lst.lst[1] >= 1) =>
        LET lst == idx_lst.lst
            SameSpan(a, b) ==
                \E g \in 1..Len(spans) :
                    /\ \E k \in 2..Len(spans[g]) : spans[g][k] = a
                    /\ \E k \in 2..Len(spans[g]) : spans[g][k] = b
        IN  /\ MarkersOf(spans, 1) = lst
            /\ \A g \in 1..Len(spans) :
                  /\ Len(spans[g]) >= 2
                  /\ \A k \in 1..(Len(spans[g]) - 1) :
                        spans[g][k + 1] = spans[g][k] + 1
            /\ \A k \in 1..(Len(lst) - 1) :
                  SameSpan(lst[k], lst[k + 1]) <=> (lst[k + 1] - lst[k] = 1)

\* a list with two adjacent markers and a gap
C9_Witness ==
    /\ pc = "grouped"
    /\ idx_lst.lst[1] >= 1
    /\ Len(spans) >= 2
    /\ \E g \in 1..Len(spans) : Len(spans[g]) >= 3

\* C10: when the first word begins with an upper-case letter and lies
\* outside the span, _disambiguate returns it character for character, and
\* the returned list has the input's length and the input's word at every
\* position outside the span.
C10_FirstWordRestored ==
    (/\ pc = "returned"
     /\ isupper(<<sent0[1].w[1]>>)
     /\ ~InSpan(rplc.idx, 0)) =>
        /\ Len(sent) = Len(sent0)
        /\ sent[1] = Str(sent0[1].w)
        /\ \A p \in 0..(Len(sent0) - 1) :
              ~InSpan(rplc.idx, p) => At(sent, p) = Str(At(OrigWords, p))

----------------------------------------------------------------------------
(* supporting facts about _disambiguate, checked under SpecDisamb *)

\* the choice among the candidates follows the counts, and on a tie the
\* span keeps its words up to letter case
SelectionFollowsCounts ==
    (pc = "returned" /\ entry.found) =>
        /\ Len(entry.cands) = 1 =>
              replacement = Replacement(entry.cands[1].phrase)
        /\ \A i \in 1..Len(entry.cands) :
              (Len(entry.cands) > 1 /\ StrictMax(entry.cands, i)) =>
                  replacement = Replacement(entry.cands[i].phrase)
        /\ (Len(entry.cands) > 1 /\ TiedAtMax(entry.cands)) =>
              /\ replacement = NoReplacement
              /\ SpanUnchangedUpToCase(sent, rplc.idx)

\* the flag argmax does not change what _disambiguate returns
ArgmaxHasNoEffect ==
    (pc = "returned") =>
        sent = _disambiguate(sent0, rplc.idx, disambiguations,
                             AddTags(disambiguations), ~argmax).out

\* the returned list has the input's length and, after the first word, the
\* input's word at every position outside the span
FrameAfterFirstWord ==
    (pc = "returned") =>
        /\ Len(sent) = Len(sent0)
        /\ \A p \in 1..(Len(sent0) - 1) :
              ~InSpan(rplc.idx, p) => At(sent, p) = Str(At(OrigWords, p))

====
